---- MODULE Spec2Model ----
(***************************************************************************)
(* Model of src/django_components/context.py: the render state that the    *)
(* component engine threads through Django's Context (a stack of dicts).   *)
(*                                                                         *)
(* Python objects are modelled with a heap:                                *)
(*   ctxs   - every Context object; a Context is its list `dicts`          *)
(*   assocs - every dict stored under _SLOT_COMPONENT_ASSOC_KEY            *)
(*   fills  - every dict stored under _FILLED_SLOTS_CONTENT_CONTEXT_KEY    *)
(* A layer (one dict of Context.dicts) is a function from keys to values;  *)
(* the value of a mapping key or of the outer-root key is a reference      *)
(* (an index into the heap), so aliasing is visible.                       *)
(***************************************************************************)
EXTENDS Integers, Sequences, FiniteSets, TLC

VARIABLES ctxs, assocs, fills, behavior, nextId, steps, last, cur, frames, passFills

vars == <<ctxs, assocs, fills, behavior, nextId, steps, last, cur, frames, passFills>>

-----------------------------------------------------------------------------
(* Bounds of the model *)

\* component ids handed out in one behaviour
MaxComps == 3
\* layers in one Context (defaults layer included)
MaxDepth == 4
\* Context objects on the heap: the scope, the outer context, and what the
\* calls allocate
MaxCtxs == MaxComps + 3
\* association dicts on the heap
MaxAssocs == MaxComps + 1
\* operations in one behaviour of the API-level specification
MaxSteps == 3

-----------------------------------------------------------------------------
(* Reserved keys *)

FILLED_SLOTS_CONTENT_CONTEXT_KEY == "_DJANGO_COMPONENTS_FILLED_SLOTS"
OUTER_ROOT_CTX_CONTEXT_KEY == "_DJANGO_COMPONENTS_OUTER_ROOT_CTX"
SLOT_COMPONENT_ASSOC_KEY == "_DJANGO_COMPONENTS_SLOT_COMP_ASSOC"
PARENT_COMP_KEY == "_DJANGO_COMPONENTS_PARENT_COMP"
CURRENT_COMP_KEY == "_DJANGO_COMPONENTS_CURRENT_COMP"

\* Python's None as the value of a component-id key or of a fill lookup
None == "None"
\* Python's None where a Context reference is expected
NoCtx == 0

\* SlotContextBehavior values that set_outer_root_context tells apart
ISOLATED == "ISOLATED"
DEFAULT == "DEFAULT"

-----------------------------------------------------------------------------
(* Django's Context: a stack of dicts *)

\* the layer every Context starts with
Builtins == ("True" :> 1) @@ ("False" :> 0) @@ ("None" :> 0)

\* Context() and context.new(): a fresh stack holding the defaults only
ContextNew == <<Builtins>>

\* key in context
CtxHas(ds, key) == \E i \in 1..Len(ds) : key \in DOMAIN ds[i]

\* the topmost layer that holds key
CtxIndex(ds, key) ==
    CHOOSE i \in 1..Len(ds) :
        /\ key \in DOMAIN ds[i]
        /\ \A j \in (i+1)..Len(ds) : key \notin DOMAIN ds[j]

\* context[key], used where the key is present
CtxItem(ds, key) == ds[CtxIndex(ds, key)][key]

\* context.get(key, otherwise)
CtxGet(ds, key, otherwise) == IF CtxHas(ds, key) THEN CtxItem(ds, key) ELSE otherwise

\* context[key] = value: always the top layer
CtxSet(ds, key, value) == [ds EXCEPT ![Len(ds)] = (key :> value) @@ @]

\* context.push(d) / context.update(d): a copy of d becomes the top layer
CtxPush(ds, d) == Append(ds, d)

\* context.pop()
CtxPop(ds) == SubSeq(ds, 1, Len(ds) - 1)

\* context.flatten(): one dict, higher layers overriding lower ones
RECURSIVE Flatten(_)
Flatten(ds) ==
    IF Len(ds) = 0 THEN <<>>
    ELSE ds[Len(ds)] @@ Flatten(SubSeq(ds, 1, Len(ds) - 1))

\* find_last_index(context.dicts, lambda d: "forloop" in d)
find_last_index(ds, key) == CtxIndex(ds, key)

\* the heap as one value, threaded through the operators below
Heap == [ctxs |-> ctxs, assocs |-> assocs, fills |-> fills]

-----------------------------------------------------------------------------
(* context.py *)

\* Python truthiness of a component id read with context.get
Truthy(v) == v # None /\ v # ""

\* a slip in lines 86-87: the current id is stored before the parent is read
set_component_id_current_first(h, c, component_id) ==
    LET d1 == CtxSet(h.ctxs[c], CURRENT_COMP_KEY, component_id)
    IN  [h EXCEPT !.ctxs[c] = CtxSet(d1, PARENT_COMP_KEY, CtxGet(d1, CURRENT_COMP_KEY, None))]

\* a slip in line 87: the current id stored with set_upward, which writes the
\* layer that holds the key already, not the top layer
set_component_id_upward(h, c, component_id) ==
    LET parent == CtxGet(h.ctxs[c], CURRENT_COMP_KEY, None)
        d1 == CtxSet(h.ctxs[c], PARENT_COMP_KEY, parent)
        i == IF CtxHas(d1, CURRENT_COMP_KEY) THEN CtxIndex(d1, CURRENT_COMP_KEY) ELSE Len(d1)
    IN  [h EXCEPT !.ctxs[c] = [d1 EXCEPT ![i] = (CURRENT_COMP_KEY :> component_id) @@ @]]

\* lines 79-87
set_component_id(h, c, component_id) ==
    LET parent == CtxGet(h.ctxs[c], CURRENT_COMP_KEY, None)
        d1 == CtxSet(h.ctxs[c], PARENT_COMP_KEY, parent)
    IN  [h EXCEPT !.ctxs[c] = CtxSet(d1, CURRENT_COMP_KEY, component_id)]

\* lines 113-119; NoCtx when the key is absent
get_outer_root_context(h, c) == CtxGet(h.ctxs[c], OUTER_ROOT_CTX_CONTEXT_KEY, NoCtx)

\* a slip in lines 139-146: the special case for isolated slots left out
outer_root_base_no_flatten(h, c, outer_ctx) ==
    IF outer_ctx # NoCtx /\ Len(h.ctxs[outer_ctx]) > 1
    THEN CtxPush(ContextNew, h.ctxs[outer_ctx][2])
    ELSE ContextNew

\* a slip in line 158: the top layer taken instead of the layer at index 1
outer_root_base_top_layer(h, c, outer_ctx) ==
    IF /\ outer_ctx # NoCtx
       /\ ~(CtxGet(h.ctxs[c], PARENT_COMP_KEY, None) # None)
       /\ behavior = ISOLATED
       /\ CtxHas(h.ctxs[c], OUTER_ROOT_CTX_CONTEXT_KEY)
    THEN CtxPush(ContextNew, Flatten(h.ctxs[outer_ctx]))
    ELSE IF outer_ctx # NoCtx /\ Len(h.ctxs[outer_ctx]) > 1
    THEN CtxPush(ContextNew, h.ctxs[outer_ctx][Len(h.ctxs[outer_ctx])])
    ELSE ContextNew

\* a slip in lines 139-158: the test for more than one layer made first
outer_root_base_layer_first(h, c, outer_ctx) ==
    IF outer_ctx # NoCtx /\ Len(h.ctxs[outer_ctx]) > 1
    THEN CtxPush(ContextNew, h.ctxs[outer_ctx][2])
    ELSE IF /\ outer_ctx # NoCtx
            /\ ~Truthy(CtxGet(h.ctxs[c], PARENT_COMP_KEY, None))
            /\ behavior = ISOLATED
            /\ CtxHas(h.ctxs[c], OUTER_ROOT_CTX_CONTEXT_KEY)
    THEN CtxPush(ContextNew, Flatten(h.ctxs[outer_ctx]))
    ELSE ContextNew

\* lines 139-162: the dicts of the new outer root context before the mappings
\* are included. A Context object is always truthy, so `outer_ctx and ...`
\* only tests for None.
outer_root_base(h, c, outer_ctx) ==
    IF /\ outer_ctx # NoCtx
       /\ ~Truthy(CtxGet(h.ctxs[c], PARENT_COMP_KEY, None))
       /\ behavior = ISOLATED
       /\ CtxHas(h.ctxs[c], OUTER_ROOT_CTX_CONTEXT_KEY)
    THEN CtxPush(ContextNew, Flatten(h.ctxs[outer_ctx]))
    ELSE IF outer_ctx # NoCtx /\ Len(h.ctxs[outer_ctx]) > 1
    THEN CtxPush(ContextNew, h.ctxs[outer_ctx][2])
    ELSE ContextNew

\* a slip in lines 139-158: the outer context itself kept as the outer root
\* context, where the code makes a new Context and copies into it
set_outer_root_context_live(h, c, outer_ctx) ==
    LET ctx == h.ctxs[c]
        base == IF outer_ctx # NoCtx THEN h.ctxs[outer_ctx] ELSE ContextNew
        r1 == IF CtxHas(ctx, SLOT_COMPONENT_ASSOC_KEY)
              THEN CtxSet(base, SLOT_COMPONENT_ASSOC_KEY, CtxItem(ctx, SLOT_COMPONENT_ASSOC_KEY))
              ELSE base
        r2 == IF CtxHas(ctx, FILLED_SLOTS_CONTENT_CONTEXT_KEY)
              THEN CtxSet(r1, FILLED_SLOTS_CONTENT_CONTEXT_KEY,
                          CtxItem(ctx, FILLED_SLOTS_CONTENT_CONTEXT_KEY))
              ELSE r1
        root == IF outer_ctx # NoCtx THEN outer_ctx ELSE Len(h.ctxs) + 1
    IN  IF outer_ctx # NoCtx
        THEN [h EXCEPT !.ctxs = [[@ EXCEPT ![root] = r2]
                                     EXCEPT ![c] = CtxSet(@, OUTER_ROOT_CTX_CONTEXT_KEY, root)]]
        ELSE [h EXCEPT !.ctxs = Append([@ EXCEPT ![c] = CtxSet(@, OUTER_ROOT_CTX_CONTEXT_KEY, root)], r2)]

\* lines 122-170; the new Context gets the next free heap index
set_outer_root_context(h, c, outer_ctx) ==
    LET ctx == h.ctxs[c]
        base == outer_root_base(h, c, outer_ctx)
        r1 == IF CtxHas(ctx, SLOT_COMPONENT_ASSOC_KEY)
              THEN CtxSet(base, SLOT_COMPONENT_ASSOC_KEY, CtxItem(ctx, SLOT_COMPONENT_ASSOC_KEY))
              ELSE base
        r2 == IF CtxHas(ctx, FILLED_SLOTS_CONTENT_CONTEXT_KEY)
              THEN CtxSet(r1, FILLED_SLOTS_CONTENT_CONTEXT_KEY,
                          CtxItem(ctx, FILLED_SLOTS_CONTENT_CONTEXT_KEY))
              ELSE r1
        root == Len(h.ctxs) + 1
    IN  [h EXCEPT !.ctxs = Append([@ EXCEPT ![c] = CtxSet(@, OUTER_ROOT_CTX_CONTEXT_KEY, root)], r2)]

\* a slip in line 40: the new map stored in the bottom layer of the context
init_slot_assoc_bottom_layer(h, c) ==
    IF CtxHas(h.ctxs[c], SLOT_COMPONENT_ASSOC_KEY) THEN h
    ELSE [h EXCEPT !.assocs = Append(@, <<>>),
                   !.ctxs[c][1] = (SLOT_COMPONENT_ASSOC_KEY :> (Len(h.assocs) + 1)) @@ @]

\* lines 39-40: context[_SLOT_COMPONENT_ASSOC_KEY] = {} when absent
init_slot_assoc(h, c) ==
    IF CtxHas(h.ctxs[c], SLOT_COMPONENT_ASSOC_KEY) THEN h
    ELSE [h EXCEPT !.assocs = Append(@, <<>>),
                   !.ctxs[c] = CtxSet(@, SLOT_COMPONENT_ASSOC_KEY, Len(h.assocs) + 1)]

\* a slip in lines 41-42: a new registry at every entry
init_slot_fills_always(h, c) ==
    [h EXCEPT !.fills = Append(@, <<>>),
              !.ctxs[c] = CtxSet(@, FILLED_SLOTS_CONTENT_CONTEXT_KEY, Len(h.fills) + 1)]

\* lines 41-42: context[_FILLED_SLOTS_CONTENT_CONTEXT_KEY] = {} when absent
init_slot_fills(h, c) ==
    IF CtxHas(h.ctxs[c], FILLED_SLOTS_CONTENT_CONTEXT_KEY) THEN h
    ELSE [h EXCEPT !.fills = Append(@, <<>>),
                   !.ctxs[c] = CtxSet(@, FILLED_SLOTS_CONTENT_CONTEXT_KEY, Len(h.fills) + 1)]

\* a slip in lines 55 and 204: a new empty dict instead of a copy of the map
copy_assoc_to_top_empty(h, c) ==
    [h EXCEPT !.assocs = Append(@, <<>>),
              !.ctxs[c] = CtxSet(@, SLOT_COMPONENT_ASSOC_KEY, Len(h.assocs) + 1)]

\* a slip in lines 55 and 204: .copy() left out, the top layer gets the same dict
copy_assoc_to_top_shared(h, c) ==
    [h EXCEPT !.ctxs[c] = CtxSet(@, SLOT_COMPONENT_ASSOC_KEY,
                                 CtxItem(h.ctxs[c], SLOT_COMPONENT_ASSOC_KEY))]

\* context.dicts[-1][_SLOT_COMPONENT_ASSOC_KEY] = context[_SLOT_COMPONENT_ASSOC_KEY].copy()
copy_assoc_to_top(h, c) ==
    [h EXCEPT !.assocs = Append(@, h.assocs[CtxItem(h.ctxs[c], SLOT_COMPONENT_ASSOC_KEY)]),
              !.ctxs[c] = CtxSet(@, SLOT_COMPONENT_ASSOC_KEY, Len(h.assocs) + 1)]

\* lines 54-55
forloop_copy(h, c) ==
    IF CtxHas(h.ctxs[c], "forloop") THEN copy_assoc_to_top(h, c) ELSE h

\* lines 27-57
prepare_context(h, c, outer_context, component_id) ==
    LET h1 == IF outer_context # NoCtx THEN set_outer_root_context(h, c, outer_context) ELSE h
        h2 == init_slot_assoc(h1, c)
        h3 == init_slot_fills(h2, c)
        h4 == forloop_copy(h3, c)
    IN  set_component_id(h4, c, component_id)

\* a slip in line 228: the "forloop" key copied alone, not the whole layer
copy_forloop_context_marker_only(h, from_context, to_context) ==
    IF CtxHas(h.ctxs[from_context], "forloop")
    THEN [h EXCEPT !.ctxs[to_context] =
              CtxPush(@, "forloop" :> CtxItem(h.ctxs[from_context], "forloop"))]
    ELSE h

\* lines 218-228
copy_forloop_context(h, from_context, to_context) ==
    IF CtxHas(h.ctxs[from_context], "forloop")
    THEN [h EXCEPT !.ctxs[to_context] =
              CtxPush(@, h.ctxs[from_context][find_last_index(h.ctxs[from_context], "forloop")])]
    ELSE h

\* lines 60-76; the copy gets heap index Len(h.ctxs) + 1, its outer root the next
make_isolated_context_copy(h, c) ==
    LET ctx == h.ctxs[c]
        root_ctx == get_outer_root_context(h, c)
        \* context.get(KEY, {}): the dict in the context, or a new empty one
        ha == IF CtxHas(ctx, SLOT_COMPONENT_ASSOC_KEY) THEN h
              ELSE [h EXCEPT !.assocs = Append(@, <<>>)]
        slot_assoc == IF CtxHas(ctx, SLOT_COMPONENT_ASSOC_KEY)
                      THEN CtxItem(ctx, SLOT_COMPONENT_ASSOC_KEY) ELSE Len(h.assocs) + 1
        hf == IF CtxHas(ctx, FILLED_SLOTS_CONTENT_CONTEXT_KEY) THEN ha
              ELSE [ha EXCEPT !.fills = Append(@, <<>>)]
        slot_fills == IF CtxHas(ctx, FILLED_SLOTS_CONTENT_CONTEXT_KEY)
                      THEN CtxItem(ctx, FILLED_SLOTS_CONTENT_CONTEXT_KEY) ELSE Len(h.fills) + 1
        context_copy == Len(h.ctxs) + 1
        copy0 == CtxSet(CtxSet(ContextNew, SLOT_COMPONENT_ASSOC_KEY, slot_assoc),
                        FILLED_SLOTS_CONTENT_CONTEXT_KEY, slot_fills)
        h1 == [hf EXCEPT !.ctxs = Append(@, copy0)]
        h2 == set_outer_root_context(h1, context_copy, root_ctx)
        h3 == copy_forloop_context(h2, c, context_copy)
        d1 == CtxSet(h3.ctxs[context_copy], CURRENT_COMP_KEY, CtxGet(ctx, CURRENT_COMP_KEY, None))
        d2 == CtxSet(d1, PARENT_COMP_KEY, CtxGet(ctx, PARENT_COMP_KEY, None))
    IN  [h3 EXCEPT !.ctxs[context_copy] = d2]

\* f"{component_id}__{slot_name}"
slot_key(component_id, slot_name) == component_id \o "__" \o slot_name

\* lines 90-98; err is the KeyError of context[KEY] on a context without the registry
get_slot_fill(h, c, component_id, slot_name) ==
    IF ~CtxHas(h.ctxs[c], FILLED_SLOTS_CONTENT_CONTEXT_KEY)
    THEN [err |-> TRUE, val |-> None]
    ELSE LET reg == h.fills[CtxItem(h.ctxs[c], FILLED_SLOTS_CONTENT_CONTEXT_KEY)]
             key == slot_key(component_id, slot_name)
         IN  [err |-> FALSE, val |-> IF key \in DOMAIN reg THEN reg[key] ELSE None]

\* lines 101-110
set_slot_fill(h, c, component_id, slot_name, value) ==
    IF ~CtxHas(h.ctxs[c], FILLED_SLOTS_CONTENT_CONTEXT_KEY)
    THEN [err |-> TRUE, heap |-> h]
    ELSE LET ref == CtxItem(h.ctxs[c], FILLED_SLOTS_CONTENT_CONTEXT_KEY)
         IN  [err |-> FALSE,
              heap |-> [h EXCEPT !.fills[ref] = (slot_key(component_id, slot_name) :> value) @@ @]]

\* a slip in lines 203-204: the map is never copied onto the top layer
clone_assoc_never(h, c) == h

\* lines 202-204: the top layer gets a copy of the map unless it holds the key
clone_assoc_if_missing(h, c) ==
    IF SLOT_COMPONENT_ASSOC_KEY \notin DOMAIN h.ctxs[c][Len(h.ctxs[c])]
    THEN copy_assoc_to_top(h, c)
    ELSE h

\* lines 173-205; err is the KeyError of context[KEY] when no layer holds a map
set_slot_component_association(h, c, slot_id, component_id) ==
    IF ~CtxHas(h.ctxs[c], SLOT_COMPONENT_ASSOC_KEY)
    THEN [err |-> TRUE, heap |-> h]
    ELSE LET h1 == clone_assoc_if_missing(h, c)
             ref == CtxItem(h1.ctxs[c], SLOT_COMPONENT_ASSOC_KEY)
         IN  [err |-> FALSE,
              heap |-> [h1 EXCEPT !.assocs[ref] = (slot_id :> component_id) @@ @]]

\* a slip in line 215: dict.get, which returns None for a slot that is not bound
get_slot_component_association_or_none(h, c, slot_id) ==
    IF ~CtxHas(h.ctxs[c], SLOT_COMPONENT_ASSOC_KEY)
    THEN [err |-> TRUE, val |-> None]
    ELSE LET map == h.assocs[CtxItem(h.ctxs[c], SLOT_COMPONENT_ASSOC_KEY)]
         IN  [err |-> FALSE, val |-> IF slot_id \in DOMAIN map THEN map[slot_id] ELSE None]

\* lines 208-215; err is the KeyError of either subscript
get_slot_component_association(h, c, slot_id) ==
    IF ~CtxHas(h.ctxs[c], SLOT_COMPONENT_ASSOC_KEY)
    THEN [err |-> TRUE, val |-> None]
    ELSE LET map == h.assocs[CtxItem(h.ctxs[c], SLOT_COMPONENT_ASSOC_KEY)]
         IN  IF slot_id \in DOMAIN map
             THEN [err |-> FALSE, val |-> map[slot_id]]
             ELSE [err |-> TRUE, val |-> None]

-----------------------------------------------------------------------------
(* The callers' inputs *)

\* gen_id of the caller: a new token per render invocation
CompId(n) == "c" \o ToString(n)
IssuedIds == {CompId(i) : i \in 1..(nextId - 1)}

\* slot identity tokens, fixed when a template is compiled
SlotIds == {"s1", "s2"}

\* slot names, and the fill content a component instance brings for its slots
\* (opaque to context.py; every instance has its own FillContent objects)
SlotNames == {"header"}
FillOf(component_id) == "fill of " \o component_id

\* layers the surrounding templates push: plain variables, and the layer ForNode
\* pushes, which holds "forloop" and the loop variable
LayerA == "a" :> 1
LayerB == "b" :> 2
LayerA2 == "a" :> 2
ForNodeLayer == ("forloop" :> 1) @@ ("item" :> 1)
UserLayers == {LayerB, ForNodeLayer}

\* the layer the ForNode of a loop nested in the first one pushes
InnerForNodeLayer == ("forloop" :> 2) @@ ("item" :> 2) @@ ("b" :> 2)

\* variables a template can read
UserKeys == {"a", "b", "item", "forloop", "z"}

\* the defaults layer of a Context() after context["z"] = 3
DefaultsWithZ == ("z" :> 3) @@ Builtins

\* the contexts "just outside" a component that the callers pass as outer_context
OuterContexts ==
    { <<DefaultsWithZ>>,
      <<DefaultsWithZ, LayerA, LayerB>>,
      <<DefaultsWithZ, LayerA, LayerA2>> }

\* heap index of the main scope and of the outer context
Main == 1
Outer == 2

CtxIds == 1..Len(ctxs)

\* what the last call was, with its arguments and its result (of a render:
\* the return that has just happened, if any); hadRoot: the scope held an
\* outer root context when prepare_context was called
NoOp == [op |-> "init", c |-> 0, outer |-> 0, comp |-> None, slot |-> "",
         slots |-> {}, view |-> <<>>, hadRoot |-> FALSE, err |-> FALSE, val |-> None]

-----------------------------------------------------------------------------
(* State machine of the module's functions, called on any Context *)

Init ==
    /\ \E o \in OuterContexts : ctxs = <<ContextNew, o>>
    /\ assocs = <<>>
    /\ fills = <<>>
    /\ behavior \in {DEFAULT, ISOLATED}
    /\ nextId = 1
    /\ steps = 0
    /\ last = NoOp
    /\ cur = Main
    /\ frames = <<>>
    /\ passFills = <<>>

SetHeap(h) ==
    /\ ctxs' = h.ctxs
    /\ assocs' = h.assocs
    /\ fills' = h.fills

Step ==
    /\ steps < MaxSteps
    /\ steps' = steps + 1
    /\ UNCHANGED <<behavior, cur, frames, passFills>>

\* context.update(d) of a caller
Push(c, d) ==
    /\ Step
    /\ Len(ctxs[c]) < MaxDepth
    /\ ctxs' = [ctxs EXCEPT ![c] = CtxPush(@, d)]
    /\ last' = [NoOp EXCEPT !.op = "push", !.c = c]
    /\ UNCHANGED <<assocs, fills, nextId>>

\* context.pop() of a caller; Django refuses to pop the defaults layer
Pop(c) ==
    /\ Step
    /\ Len(ctxs[c]) > 1
    /\ ctxs' = [ctxs EXCEPT ![c] = CtxPop(@)]
    /\ last' = [NoOp EXCEPT !.op = "pop", !.c = c]
    /\ UNCHANGED <<assocs, fills, nextId>>

PrepareContext(c, outer) ==
    /\ Step
    /\ nextId <= MaxComps
    /\ Len(ctxs) < MaxCtxs
    /\ Len(assocs) + 2 <= MaxAssocs
    /\ SetHeap(prepare_context(Heap, c, outer, CompId(nextId)))
    /\ nextId' = nextId + 1
    /\ last' = [NoOp EXCEPT !.op = "prepare_context", !.c = c, !.outer = outer,
                            !.comp = CompId(nextId),
                            !.hadRoot = CtxHas(ctxs[c], OUTER_ROOT_CTX_CONTEXT_KEY)]

MakeIsolatedContextCopy(c) ==
    /\ Step
    /\ Len(ctxs) + 2 <= MaxCtxs
    /\ Len(assocs) < MaxAssocs
    /\ SetHeap(make_isolated_context_copy(Heap, c))
    /\ last' = [NoOp EXCEPT !.op = "make_isolated_context_copy", !.c = c]
    /\ UNCHANGED nextId

SetSlotComponentAssociation(c, slot_id, component_id) ==
    /\ Step
    /\ Len(assocs) < MaxAssocs
    /\ LET r == set_slot_component_association(Heap, c, slot_id, component_id)
       IN  /\ SetHeap(r.heap)
           /\ last' = [NoOp EXCEPT !.op = "set_slot_component_association", !.c = c,
                                   !.slot = slot_id, !.comp = component_id, !.err = r.err]
    /\ UNCHANGED nextId

GetSlotComponentAssociation(c, slot_id) ==
    /\ Step
    /\ LET r == get_slot_component_association(Heap, c, slot_id)
       IN  last' = [NoOp EXCEPT !.op = "get_slot_component_association", !.c = c,
                                !.slot = slot_id, !.err = r.err, !.val = r.val]
    /\ UNCHANGED <<ctxs, assocs, fills, nextId>>

Next ==
    \/ \E c \in CtxIds, d \in UserLayers : Push(c, d)
    \/ \E c \in CtxIds : Pop(c)
    \/ \E c \in CtxIds, outer \in {NoCtx, Outer} : PrepareContext(c, outer)
    \/ \E c \in CtxIds : MakeIsolatedContextCopy(c)
    \/ \E c \in CtxIds, s \in SlotIds, id \in IssuedIds : SetSlotComponentAssociation(c, s, id)
    \/ \E c \in CtxIds, s \in SlotIds : GetSlotComponentAssociation(c, s)

Spec == Init /\ [][Next]_vars

-----------------------------------------------------------------------------
(* State machine of one render: the call discipline of the render dispatch.  *)
(* A component render pushes a layer and calls prepare_context, registers    *)
(* its slots and fills, renders its children and pops; ForNode pushes the    *)
(* forloop layer around its iterations; an isolated render continues on      *)
(* make_isolated_context_copy(context).                                      *)
(* frames is the stack of the calls in progress, cur the Context the         *)
(* innermost one renders with.                                               *)

\* the association map a stack of dicts resolves to; empty when it holds none
View(ds) ==
    IF CtxHas(ds, SLOT_COMPONENT_ASSOC_KEY)
    THEN assocs[CtxItem(ds, SLOT_COMPONENT_ASSOC_KEY)]
    ELSE <<>>

\* the render state a Context resolves, besides the association map: the
\* component ids and the outer root context
RenderState(c) ==
    [current |-> CtxGet(ctxs[c], CURRENT_COMP_KEY, None),
     parent |-> CtxGet(ctxs[c], PARENT_COMP_KEY, None),
     root |-> get_outer_root_context(Heap, c)]

Top == frames[Len(frames)]
InComponent == Len(frames) > 0 /\ Top.kind = "component"

\* a call in progress: the Context it was made on and that Context's depth at
\* the call, the slots it registered, for a loop the slots registered by its
\* finished iterations, the association map visible and the render state
\* resolved when it began, and the sizes of the heap when it began
Frame(kind, comp) ==
    [kind |-> kind, ctx |-> cur, base |-> Len(ctxs[cur]), comp |-> comp,
     slots |-> {}, seen |-> {}, view |-> View(ctxs[cur]),
     before |-> RenderState(cur),
     nCtxs |-> Len(ctxs), nAssocs |-> Len(assocs), nFills |-> Len(fills)]

\* Component.render always passes an outer context (self.outer_context or Context())
BeginRender ==
    /\ Len(ctxs[cur]) < MaxDepth
    /\ nextId <= MaxComps
    /\ Len(ctxs) < MaxCtxs
    /\ Len(assocs) + 2 <= MaxAssocs
    /\ LET pushed == [Heap EXCEPT !.ctxs[cur] = CtxPush(@, LayerA)]
       IN  SetHeap(prepare_context(pushed, cur, Outer, CompId(nextId)))
    /\ nextId' = nextId + 1
    /\ frames' = Append(frames, Frame("component", CompId(nextId)))
    /\ last' = NoOp
    /\ UNCHANGED <<behavior, steps, cur, passFills>>

\* The slots of a template are rendered in the order of the template: s1
\* comes before s2.
RegisterSlot(slot_id) ==
    /\ InComponent
    /\ slot_id = "s2" => "s1" \in Top.slots
    /\ Len(assocs) < MaxAssocs
    /\ LET r == set_slot_component_association(Heap, cur, slot_id, Top.comp)
       IN  SetHeap(r.heap)
    /\ last' = NoOp
    /\ frames' = [frames EXCEPT ![Len(frames)].slots = @ \cup {slot_id}]
    /\ UNCHANGED <<behavior, nextId, steps, cur, passFills>>

RegisterFill(slot_name) ==
    /\ InComponent
    /\ LET r == set_slot_fill(Heap, cur, Top.comp, slot_name, FillOf(Top.comp))
       IN  SetHeap(r.heap)
    /\ last' = NoOp
    /\ UNCHANGED frames
    /\ passFills' = (<<Top.comp, slot_name>> :> FillOf(Top.comp)) @@ passFills
    /\ UNCHANGED <<behavior, nextId, steps, cur>>

\* Leaving a frame. Rendering is depth first, so the objects created since
\* the frame began are referenced only by the layers and the Contexts that go
\* with it: Python frees them, and the heap returns to its size at the call.
\* The fills written belong to the pass, which ends when the call that
\* created its registry (the top-level render) returns.
Leave(ds) ==
    /\ ctxs' = SubSeq(ds, 1, Top.nCtxs)
    /\ assocs' = SubSeq(assocs, 1, Top.nAssocs)
    /\ fills' = SubSeq(fills, 1, Top.nFills)
    /\ frames' = [i \in 1..(Len(frames) - 1) |->
                     IF i = Len(frames) - 1 /\ frames[i].kind = "forloop"
                     THEN [frames[i] EXCEPT !.seen = @ \cup Top.slots]
                     ELSE frames[i]]
    /\ passFills' = IF Top.nFills = 0 THEN <<>> ELSE passFills
    /\ UNCHANGED <<behavior, nextId, steps>>

EndRender ==
    /\ InComponent
    /\ last' = [NoOp EXCEPT !.op = "EndRender", !.c = cur, !.comp = Top.comp,
                            !.slots = Top.slots]
    /\ Leave([ctxs EXCEPT ![cur] = CtxPop(@)])
    /\ UNCHANGED cur

\* A loop whose body is nothing but another loop pushes the same layer twice:
\* a loop starts at the top level or inside a component or an isolated fill.
BeginLoop ==
    /\ Len(ctxs[cur]) < MaxDepth - 1
    /\ Len(frames) > 0 => Top.kind # "forloop"
    /\ ctxs' = [ctxs EXCEPT ![cur] = CtxPush(@, ForNodeLayer)]
    /\ frames' = Append(frames, Frame("forloop", None))
    /\ last' = NoOp
    /\ UNCHANGED <<assocs, fills, behavior, nextId, steps, cur, passFills>>

EndLoop ==
    /\ Len(frames) > 0 /\ Top.kind = "forloop"
    /\ last' = [NoOp EXCEPT !.op = "EndLoop", !.c = cur, !.view = Top.view]
    /\ Leave([ctxs EXCEPT ![cur] = CtxPop(@)])
    /\ UNCHANGED cur

EnterIsolated ==
    /\ Len(ctxs) + 2 <= MaxCtxs
    /\ Len(assocs) < MaxAssocs
    /\ SetHeap(make_isolated_context_copy(Heap, cur))
    /\ cur' = Len(ctxs) + 1
    /\ frames' = Append(frames, Frame("isolated", None))
    /\ last' = NoOp
    /\ UNCHANGED <<behavior, nextId, steps, passFills>>

ExitIsolated ==
    /\ Len(frames) > 0 /\ Top.kind = "isolated"
    /\ cur' = Top.ctx
    /\ last' = [NoOp EXCEPT !.op = "ExitIsolated", !.c = cur]
    /\ Leave(ctxs)

NextRender ==
    \/ BeginRender
    \/ \E s \in SlotIds : RegisterSlot(s)
    \/ \E n \in SlotNames : RegisterFill(n)
    \/ EndRender
    \/ BeginLoop
    \/ EndLoop
    \/ EnterIsolated
    \/ ExitIsolated

InitRender ==
    /\ Init
    /\ ctxs[Outer] = <<DefaultsWithZ, LayerA, LayerB>>

SpecRender == InitRender /\ [][NextRender]_vars

-----------------------------------------------------------------------------
(* Claims about a render pass (SpecRender) *)

\* get_slot_component_association on the Context the innermost call renders with
Lookup(slot_id) == get_slot_component_association(Heap, cur, slot_id)

Bound(component_id) == [err |-> FALSE, val |-> component_id]

\* the render in progress has registered its fill for slot_name
HasFill(component_id, slot_name) == <<component_id, slot_name>> \in DOMAIN passFills

\* C1: isolation under recursion. Whenever a component render is the innermost
\* call in progress - at any time, so also after a render nested in it (of the
\* same template, registering the same slots under another id) has returned -
\* every slot it registered resolves to its own component id and every fill it
\* registered is returned unchanged.
C1_IsolationUnderRecursion ==
    InComponent =>
        /\ \A s \in Top.slots : Lookup(s) = Bound(Top.comp)
        /\ \A n \in SlotNames :
               HasFill(Top.comp, n) =>
                   get_slot_fill(Heap, cur, Top.comp, n) = [err |-> FALSE, val |-> FillOf(Top.comp)]

\* an inner instance that registered the same slot and its own fill has just
\* returned to the outer instance
C1_Witness ==
    /\ last.op = "EndRender"
    /\ InComponent
    /\ last.c = cur
    /\ last.slots \cap Top.slots # {}
    /\ \A n \in SlotNames : HasFill(Top.comp, n) /\ HasFill(last.comp, n)

\* the component frame that encloses frame i, as a component id
EnclosingComp(i) ==
    LET below == {j \in 1..(i - 1) : frames[j].kind = "component"}
    IN  IF below = {} THEN None
        ELSE frames[CHOOSE j \in below : \A k \in below : k <= j].comp

\* C3: parent chain. For every component render in progress, its scope (the
\* Context up to the layer it pushed) records its own id as current and, as
\* parent, the id of the component render that called it - the component that
\* was current immediately before the call - or None for a top-level render.
C3_ParentChain ==
    \A i \in 1..Len(frames) :
        frames[i].kind = "component" =>
            LET ds == SubSeq(ctxs[frames[i].ctx], 1, frames[i].base + 1)
            IN  /\ CtxGet(ds, CURRENT_COMP_KEY, None) = frames[i].comp
                /\ CtxGet(ds, PARENT_COMP_KEY, None) = EnclosingComp(i)

\* three component renders are nested, A then B then C
C3_Witness ==
    /\ Cardinality({i \in 1..Len(frames) : frames[i].kind = "component"}) = 3
    /\ InComponent
    /\ CtxGet(ctxs[cur], PARENT_COMP_KEY, None) = EnclosingComp(Len(frames))
    /\ EnclosingComp(Len(frames)) # None

\* the top layer of the Context the innermost call renders with holds an
\* association map that no lower layer of that Context holds
TopOwnsAssoc ==
    LET ds == ctxs[cur]
        k == Len(ds)
    IN  /\ SLOT_COMPONENT_ASSOC_KEY \in DOMAIN ds[k]
        /\ \A j \in 1..(k - 1) :
               SLOT_COMPONENT_ASSOC_KEY \in DOMAIN ds[j] =>
                   ds[j][SLOT_COMPONENT_ASSOC_KEY] # ds[k][SLOT_COMPONENT_ASSOC_KEY]

\* C2: iteration copy-on-write. A component render entered on a scope that
\* holds "forloop" has its own copy of the association map on its top layer;
\* the map it sees is the map the loop started with plus its own
\* registrations, and its fill is its own. The scope under a loop layer keeps
\* the map it had when the loop began, between two iterations the loop shows
\* that same map, and after the loop the enclosing scope shows it again.
C2_IterationCopyOnWrite ==
    /\ (InComponent /\ CtxHas(ctxs[cur], "forloop")) =>
           /\ TopOwnsAssoc
           /\ View(ctxs[cur]) = [s \in Top.slots |-> Top.comp] @@ Top.view
           /\ \A n \in SlotNames :
                  HasFill(Top.comp, n) =>
                      get_slot_fill(Heap, cur, Top.comp, n).val = FillOf(Top.comp)
    /\ \A i \in 1..Len(frames) :
           frames[i].kind = "forloop" =>
               View(SubSeq(ctxs[frames[i].ctx], 1, frames[i].base)) = frames[i].view
    /\ (Len(frames) > 0 /\ Top.kind = "forloop") => View(ctxs[cur]) = Top.view
    /\ last.op = "EndLoop" => View(ctxs[cur]) = last.view

\* a later iteration of a loop is rendering: it has registered its fill and a
\* slot that an earlier iteration of the same loop had registered too
C2_Witness ==
    /\ InComponent
    /\ Len(frames) >= 2
    /\ frames[Len(frames) - 1].kind = "forloop"
    /\ Top.slots \cap frames[Len(frames) - 1].seen # {}
    /\ \A n \in SlotNames : HasFill(Top.comp, n)

\* the frames in progress that registered slot_id
Registrars(slot_id) == {i \in 1..Len(frames) : slot_id \in frames[i].slots}

\* C8 as stated: once a descendant render has returned to a component render,
\* the associations the descendant registered are seen from the ancestor.
C8_SeenByAncestor ==
    (last.op = "EndRender" /\ InComponent) =>
        \A s \in last.slots : Lookup(s) = Bound(last.comp)

\* C8 amended: every lookup resolves to the innermost render still in progress
\* that registered the slot - the registering render itself and the renders
\* nested in it see the association - and fails when no render in progress
\* registered it: an association is gone once the layer of the render that
\* registered it is popped, for the ancestor and for a later sibling alike.
C8_InnermostRegistration ==
    \A s \in SlotIds :
        LET by == Registrars(s)
        IN  IF by = {}
            THEN Lookup(s).err
            ELSE Lookup(s) = Bound(frames[CHOOSE i \in by : \A j \in by : j <= i].comp)

\* a descendant that registered a slot has returned to a component render that
\* had not registered it; a render nested in another sees the other's slot
C8_Witness ==
    /\ last.op = "EndRender"
    /\ InComponent
    /\ \E s \in last.slots : s \notin Top.slots /\ Registrars(s) = {}
    /\ \E s \in Top.slots : TRUE

\* C9: one fill registry per pass. Every layer of every Context of the pass
\* that holds a registry (ancestor layers, descendant layers, isolated copies)
\* holds the one that the scope being rendered resolves, so a lookup from any
\* of them, at any depth, reads that one; and get_slot_fill returns from it,
\* for every component and slot name, the content last written in the pass by
\* set_slot_fill, whichever layer wrote it and whether or not that layer has
\* been popped since, and None when nothing was written.
C9_OneRegistryPerPass ==
    /\ \A c \in CtxIds : \A k \in 1..Len(ctxs[c]) :
           FILLED_SLOTS_CONTENT_CONTEXT_KEY \in DOMAIN ctxs[c][k] =>
               /\ CtxHas(ctxs[cur], FILLED_SLOTS_CONTENT_CONTEXT_KEY)
               /\ ctxs[c][k][FILLED_SLOTS_CONTENT_CONTEXT_KEY] =
                      CtxItem(ctxs[cur], FILLED_SLOTS_CONTENT_CONTEXT_KEY)
    /\ CtxHas(ctxs[cur], FILLED_SLOTS_CONTENT_CONTEXT_KEY) =>
           \A id \in IssuedIds, n \in SlotNames :
               get_slot_fill(Heap, cur, id, n) =
                   [err |-> FALSE,
                    val |-> IF HasFill(id, n) THEN passFills[<<id, n>>] ELSE None]

\* a nested render wrote its fill and returned: the ancestor reads it
C9_Witness ==
    /\ last.op = "EndRender"
    /\ InComponent
    /\ \E n \in SlotNames :
           /\ HasFill(last.comp, n)
           /\ get_slot_fill(Heap, cur, last.comp, n).val = FillOf(last.comp)

\* C16: render state does not leak upward. When a component render returns
\* and pops its layer - after its slot registrations and the balanced
\* renders, loops and isolated renders nested in it - the Context resolves
\* the current and the parent component id, the outer root context and every
\* slot association exactly as before the render pushed its layer. The
\* render that returns had recorded as its parent the component that is
\* current again after the pop, so a component never records a sibling that
\* was rendered before it.
C16_NoLeakUpward ==
    [][/\ last'.op = "EndRender" =>
             /\ RenderState(cur)' = Top.before
             /\ \A s \in SlotIds :
                    Lookup(s)' = IF s \in DOMAIN Top.view THEN Bound(Top.view[s])
                                 ELSE [err |-> TRUE, val |-> None]
             /\ Len(ctxs'[cur]) = Top.base
             /\ CtxGet(ctxs[cur], PARENT_COMP_KEY, None) = RenderState(cur)'.current
       \* no step of a call in progress writes the outer root context that
       \* was resolved when the call began
       /\ \A i \in 1..Len(frames) :
              (frames[i].before.root # NoCtx /\ i <= Len(frames'))
              => ctxs'[frames[i].before.root] = ctxs[frames[i].before.root]
      ]_vars

\* the third component of the pass has returned to the first one, which had
\* registered a slot before; the second one, a sibling of the third, had
\* returned before the third began; the one that returned had registered a
\* slot
C16_Witness ==
    /\ last.op = "EndRender"
    /\ last.comp = CompId(MaxComps)
    /\ last.slots # {}
    /\ Len(frames) = 1
    /\ InComponent
    /\ Top.comp = CompId(1)
    /\ Top.slots # {}
    /\ RenderState(cur).current = CompId(1)

-----------------------------------------------------------------------------
(* Claims about the functions called on any Context (Spec) *)

\* the Context stored under the outer-root key of scope c
RootOf(c) == ctxs[CtxItem(ctxs[c], OUTER_ROOT_CTX_CONTEXT_KEY)]

\* prepare_context has just been called with an outer context
Entered == last.op = "prepare_context" /\ last.outer # NoCtx

\* the component just entered has no parent component
TopLevel == CtxGet(ctxs[last.c], PARENT_COMP_KEY, None) = None

\* the outer root context of scope c is one layer over the defaults, holding
\* every variable that outer context o resolves, with the value o resolves
RootFlattened(c, o) ==
    /\ Len(RootOf(c)) = 2
    /\ \A k \in UserKeys :
           /\ k \in DOMAIN RootOf(c)[2] <=> CtxHas(ctxs[o], k)
           /\ CtxHas(ctxs[o], k) => RootOf(c)[2][k] = CtxItem(ctxs[o], k)

C5_LayerOneOnly ==
    (Entered /\ behavior = DEFAULT /\ Len(ctxs[last.outer]) > 1) =>
        /\ Len(RootOf(last.c)) = 2
        /\ \A k \in UserKeys :
               /\ CtxHas(RootOf(last.c), k) <=> k \in DOMAIN ctxs[last.outer][2]
               /\ CtxHas(RootOf(last.c), k) =>
                      CtxItem(RootOf(last.c), k) = ctxs[last.outer][2][k]

\* entered with the outer context [defaults + z, {a: 1}, {b: 2}]: the outer
\* root shows a and neither z nor b
C5_Witness ==
    /\ Entered /\ behavior = DEFAULT
    /\ ctxs[last.outer] = <<DefaultsWithZ, LayerA, LayerB>>
    /\ CtxGet(RootOf(last.c), "a", 0) = 1
    /\ ~CtxHas(RootOf(last.c), "b")
    /\ ~CtxHas(RootOf(last.c), "z")

\* C6 as stated: after prepare_context with an outer context, the outer root
\* context holds the very mappings the scope resolves.
C6_RootSharesMappings ==
    Entered =>
        /\ CtxHas(RootOf(last.c), SLOT_COMPONENT_ASSOC_KEY)
        /\ CtxItem(RootOf(last.c), SLOT_COMPONENT_ASSOC_KEY) =
               CtxItem(ctxs[last.c], SLOT_COMPONENT_ASSOC_KEY)
        /\ CtxHas(RootOf(last.c), FILLED_SLOTS_CONTENT_CONTEXT_KEY)
        /\ CtxItem(RootOf(last.c), FILLED_SLOTS_CONTENT_CONTEXT_KEY) =
               CtxItem(ctxs[last.c], FILLED_SLOTS_CONTENT_CONTEXT_KEY)

\* C7 as stated: set_slot_component_association changes what no other Context
\* and no lower layer of its own Context resolves.
C7_WritesOnlyOwnCopy ==
    [][last'.op = "set_slot_component_association" =>
          \A c \in CtxIds : \A k \in 1..Len(ctxs[c]) :
              (c # last'.c \/ k < Len(ctxs[c])) =>
                  View(SubSeq(ctxs[c], 1, k))' = View(SubSeq(ctxs[c], 1, k))
      ]_vars

\* slot_id is bound in the map that the topmost layer holding one refers to
Visible(ds, slot_id) ==
    \E i \in 1..Len(ds) :
        /\ SLOT_COMPONENT_ASSOC_KEY \in DOMAIN ds[i]
        /\ \A j \in (i + 1)..Len(ds) : SLOT_COMPONENT_ASSOC_KEY \notin DOMAIN ds[j]
        /\ slot_id \in DOMAIN assocs[ds[i][SLOT_COMPONENT_ASSOC_KEY]]

\* C10: get_slot_component_association returns the bound component id when the
\* slot is bound in the visible map, fails otherwise (no such slot, or no map
\* at all), and changes nothing either way.
C10_BoundOrError ==
    [][last'.op = "get_slot_component_association" =>
          /\ UNCHANGED <<ctxs, assocs, fills>>
          /\ IF Visible(ctxs[last'.c], last'.slot)
             THEN /\ ~last'.err
                  /\ last'.val = View(ctxs[last'.c])[last'.slot]
             ELSE last'.err
      ]_vars

\* a lookup has returned a component id
C10_Witness ==
    /\ last.op = "get_slot_component_association"
    /\ ~last.err
    /\ last.val \in IssuedIds

-----------------------------------------------------------------------------
(* The outer-root resolver and the frame of prepare_context (Spec) *)

\* the variables of the outer root context of scope c are those of layer
\* index 1 of outer context o, with their values
RootIsLayerOne(c, o) ==
    \A k \in UserKeys :
        /\ CtxHas(RootOf(c), k) <=> k \in DOMAIN ctxs[o][2]
        /\ CtxHas(RootOf(c), k) => CtxItem(RootOf(c), k) = ctxs[o][2][k]

\* C14 as stated: a component entered while another component is current (so
\* that it records a parent) never gets the flattened outer context, whatever
\* the policy: for an outer context of more than one layer its outer root
\* holds the variables of layer index 1 only.
C14_NestedNeverFlattened ==
    (Entered /\ ~TopLevel /\ Len(ctxs[last.outer]) > 1) =>
        RootIsLayerOne(last.c, last.outer)

\* the keys of a Context that are variables, the engine's defaults included
VarKeys == UserKeys \cup DOMAIN Builtins

\* Context root shows, layer by layer, the variables of the dicts base
SameVars(root, base) ==
    /\ Len(root) = Len(base)
    /\ \A i \in 1..Len(base) : \A k \in VarKeys :
           /\ k \in DOMAIN root[i] <=> k \in DOMAIN base[i]
           /\ k \in DOMAIN base[i] => root[i][k] = base[i][k]

\* the base the three cases give for a scope ds and the dicts of an outer
\* context (<<>> when there is none), read before the call
SplitBase(ds, outer) ==
    IF /\ outer # <<>>
       /\ CtxGet(ds, PARENT_COMP_KEY, None) = None
       /\ behavior = ISOLATED
       /\ CtxHas(ds, OUTER_ROOT_CTX_CONTEXT_KEY)
    THEN <<Builtins, Flatten(outer)>>
    ELSE IF Len(outer) > 1
    THEN <<Builtins, outer[2]>>
    ELSE <<Builtins>>

\* C15: set_outer_root_context picks the base by the three-way split - the
\* flattened outer context (outer given, no parent id on the scope, ISOLATED,
\* an outer root already held), else layer index 1 of an outer context of
\* more than one layer, else an empty Context - and stores the result in the
\* top layer of the scope. Called by prepare_context on the scope, and by
\* make_isolated_context_copy on the new copy with the source's outer root
\* context (or None) as outer context.
C15_ThreeWaySplit ==
    [][\A c \in CtxIds :
          /\ (last'.op = "prepare_context" /\ last'.c = c /\ last'.outer # NoCtx) =>
                 \E o \in CtxIds :
                     /\ o = last'.outer
                     /\ OUTER_ROOT_CTX_CONTEXT_KEY \in DOMAIN ctxs'[c][Len(ctxs'[c])]
                     /\ SameVars(ctxs'[ctxs'[c][Len(ctxs'[c])][OUTER_ROOT_CTX_CONTEXT_KEY]],
                                 SplitBase(ctxs[c], ctxs[o]))
          /\ (last'.op = "make_isolated_context_copy" /\ last'.c = c) =>
                 LET root_ctx == CtxGet(ctxs[c], OUTER_ROOT_CTX_CONTEXT_KEY, NoCtx)
                     copy == Len(ctxs) + 1
                 IN  /\ OUTER_ROOT_CTX_CONTEXT_KEY \in DOMAIN ctxs'[copy][1]
                     /\ SameVars(ctxs'[ctxs'[copy][1][OUTER_ROOT_CTX_CONTEXT_KEY]],
                                 SplitBase(ContextNew,
                                           IF root_ctx = NoCtx THEN <<>> ELSE ctxs[root_ctx]))
      ]_vars

\* an isolated copy was made of a scope without outer root context: the
\* resolver ran without outer context and stored an empty Context
C15_Witness ==
    /\ last.op = "make_isolated_context_copy"
    /\ ~CtxHas(ctxs[last.c], OUTER_ROOT_CTX_CONTEXT_KEY)
    /\ Len(ctxs) >= 2
    /\ OUTER_ROOT_CTX_CONTEXT_KEY \in DOMAIN ctxs[Len(ctxs) - 1][1]
    /\ Len(ctxs[ctxs[Len(ctxs) - 1][1][OUTER_ROOT_CTX_CONTEXT_KEY]]) = 1

\* C17: prepare_context writes the top layer of the scope only. The scope
\* keeps its depth and every lower layer as it was, every other Context (the
\* outer context, when it is not the scope itself) is as it was, every
\* association map and fill registry that existed keeps its contents, and
\* without outer context the scope resolves the outer root context it
\* resolved before.
C17_WritesTopLayerOnly ==
    [][\A c \in CtxIds :
          (last'.op = "prepare_context" /\ last'.c = c) =>
              /\ Len(ctxs'[c]) = Len(ctxs[c])
              /\ \A i \in 1..(Len(ctxs[c]) - 1) : ctxs'[c][i] = ctxs[c][i]
              /\ \A o \in CtxIds \ {c} : ctxs'[o] = ctxs[o]
              /\ \A i \in 1..Len(assocs) : assocs'[i] = assocs[i]
              /\ \A i \in 1..Len(fills) : fills'[i] = fills[i]
              /\ last'.outer = NoCtx =>
                     CtxGet(ctxs'[c], OUTER_ROOT_CTX_CONTEXT_KEY, NoCtx) =
                         CtxGet(ctxs[c], OUTER_ROOT_CTX_CONTEXT_KEY, NoCtx)
      ]_vars

\* prepare_context was called on a scope with a lower layer that holds an
\* association map
C17_Witness ==
    /\ last.op = "prepare_context"
    /\ \E i \in 1..(Len(ctxs[last.c]) - 1) :
           /\ SLOT_COMPONENT_ASSOC_KEY \in DOMAIN ctxs[last.c][i]
           /\ SLOT_COMPONENT_ASSOC_KEY \in DOMAIN ctxs[last.c][Len(ctxs[last.c])]

-----------------------------------------------------------------------------
(* State machine of one scope: the functions called on the main Context,   *)
(* in any order, for a longer sequence of calls                            *)

ScopeStep ==
    /\ steps < MaxSteps + 2
    /\ steps' = steps + 1
    /\ UNCHANGED <<behavior, cur, frames, passFills>>

\* context.update(d) of a caller
ScopeUpdate(d) ==
    /\ ScopeStep
    /\ Len(ctxs[Main]) < MaxDepth
    /\ ctxs' = [ctxs EXCEPT ![Main] = CtxPush(@, d)]
    /\ last' = [NoOp EXCEPT !.op = "push", !.c = Main]
    /\ UNCHANGED <<assocs, fills, nextId>>

\* context.pop() of a caller
ScopePop ==
    /\ ScopeStep
    /\ Len(ctxs[Main]) > 1
    /\ ctxs' = [ctxs EXCEPT ![Main] = CtxPop(@)]
    /\ last' = [NoOp EXCEPT !.op = "pop", !.c = Main]
    /\ UNCHANGED <<assocs, fills, nextId>>

ScopeEnter(outer) ==
    /\ ScopeStep
    /\ nextId <= MaxComps
    /\ Len(ctxs) < MaxCtxs
    /\ SetHeap(prepare_context(Heap, Main, outer, CompId(nextId)))
    /\ nextId' = nextId + 1
    /\ last' = [NoOp EXCEPT !.op = "prepare_context", !.c = Main, !.outer = outer,
                            !.comp = CompId(nextId),
                            !.hadRoot = CtxHas(ctxs[Main], OUTER_ROOT_CTX_CONTEXT_KEY)]

ScopeAssociate(slot_id, component_id) ==
    /\ ScopeStep
    /\ LET r == set_slot_component_association(Heap, Main, slot_id, component_id)
       IN  /\ SetHeap(r.heap)
           /\ last' = [NoOp EXCEPT !.op = "set_slot_component_association", !.c = Main,
                                   !.slot = slot_id, !.comp = component_id, !.err = r.err]
    /\ UNCHANGED nextId

ScopeCopy ==
    /\ ScopeStep
    /\ Len(ctxs) + 2 <= MaxCtxs
    /\ SetHeap(make_isolated_context_copy(Heap, Main))
    /\ last' = [NoOp EXCEPT !.op = "make_isolated_context_copy", !.c = Main]
    /\ UNCHANGED nextId

NextScope ==
    \/ \E d \in UserLayers : ScopeUpdate(d)
    \/ ScopePop
    \/ \E outer \in {NoCtx, Outer} : ScopeEnter(outer)
    \/ \E s \in SlotIds, id \in IssuedIds : ScopeAssociate(s, id)
    \/ ScopeCopy

InitScope ==
    /\ Init
    /\ ctxs[Outer] = <<DefaultsWithZ, LayerA, LayerB>>

SpecScope == InitScope /\ [][NextScope]_vars

-----------------------------------------------------------------------------
(* Claims about one scope (SpecScope) *)

\* C18: association round trip with inheritance. A call of
\* set_slot_component_association(scope, s, c) on a scope that holds a map
\* leaves the scope resolving s to c and every other slot id to what it
\* resolved before; and no call other than a pop or another
\* set_slot_component_association changes what a bound slot id resolves to.
C18_RoundTripInheritance ==
    [][/\ (last'.op = "set_slot_component_association" /\ ~last'.err) =>
              \E s \in SlotIds, id \in IssuedIds :
                  /\ s = last'.slot
                  /\ id = last'.comp
                  /\ View(ctxs[Main])' = (s :> id) @@ View(ctxs[Main])
       /\ last'.op \notin {"pop", "set_slot_component_association"} =>
              \A s \in DOMAIN View(ctxs[Main]) :
                  /\ s \in DOMAIN View(ctxs[Main])'
                  /\ View(ctxs[Main])'[s] = View(ctxs[Main])[s]
      ]_vars

\* the top layer has received a clone of the map of a lower layer, with the
\* entry that map held, and the new entry was written into the clone
C18_Witness ==
    /\ last.op = "set_slot_component_association"
    /\ ~last.err
    /\ Cardinality(DOMAIN View(ctxs[Main])) = 2
    /\ \E i \in 1..(Len(ctxs[Main]) - 1) :
           /\ SLOT_COMPONENT_ASSOC_KEY \in DOMAIN ctxs[Main][i]
           /\ Cardinality(DOMAIN assocs[ctxs[Main][i][SLOT_COMPONENT_ASSOC_KEY]]) = 1

\* the isolated copy just made (its outer root context is allocated after it)
TheCopy == Len(ctxs) - 1

\* what a Context resolves for the variables, -1 for a key it lacks
Vars(ds) == [k \in UserKeys |-> CtxGet(ds, k, -1)]

\* the copy resolves the same component ids, associations and fills as the
\* source
CopyCarriesState ==
    /\ CtxGet(ctxs[TheCopy], CURRENT_COMP_KEY, None) = CtxGet(ctxs[Main], CURRENT_COMP_KEY, None)
    /\ CtxGet(ctxs[TheCopy], PARENT_COMP_KEY, None) = CtxGet(ctxs[Main], PARENT_COMP_KEY, None)
    /\ \A s \in SlotIds :
           get_slot_component_association(Heap, TheCopy, s) =
               get_slot_component_association(Heap, Main, s)
    /\ \A id \in IssuedIds, n \in SlotNames :
           get_slot_fill(Heap, TheCopy, id, n) = get_slot_fill(Heap, Main, id, n)

\* the outer root context of the copy shows the variables of the source's,
\* and the copy has none when the source has none
CopyCarriesRoot ==
    IF CtxHas(ctxs[Main], OUTER_ROOT_CTX_CONTEXT_KEY)
    THEN /\ CtxHas(ctxs[TheCopy], OUTER_ROOT_CTX_CONTEXT_KEY)
         /\ Vars(RootOf(TheCopy)) = Vars(RootOf(Main))
    ELSE get_outer_root_context(Heap, TheCopy) = NoCtx

\* of the source's variables the copy shows those of the topmost layer that
\* holds "forloop", and no other
CopyShowsLoopLayerOnly ==
    \A k \in UserKeys :
        IF /\ CtxHas(ctxs[Main], "forloop")
           /\ k \in DOMAIN ctxs[Main][CtxIndex(ctxs[Main], "forloop")]
        THEN CtxGet(ctxs[TheCopy], k, -1) =
                 ctxs[Main][CtxIndex(ctxs[Main], "forloop")][k]
        ELSE ~CtxHas(ctxs[TheCopy], k)

\* C12 as stated: make_isolated_context_copy of any scope leaves the source as
\* it was and returns a Context with the source's current and parent id, the
\* source's answers to every association and fill lookup, an outer root
\* context with the variables of the source's (none when the source has
\* none), and of the source's variables only those of the copied loop layer.
C12_CopyCarriesForward ==
    [][last'.op = "make_isolated_context_copy" =>
          /\ ctxs'[Main] = ctxs[Main]
          /\ CopyCarriesState'
          /\ CopyCarriesRoot'
          /\ CopyShowsLoopLayerOnly'
      ]_vars


-----------------------------------------------------------------------------
(* State machine of a scope and its outer context: the component is        *)
(* entered with the outer context, and callers go on writing to the outer  *)
(* context and to the outer root context                                   *)

\* values a caller assigns to a variable
NewValues == {7, 8}

\* outer_ctx[k] = v of a caller
OuterSet(k, v) ==
    /\ ScopeStep
    /\ ctxs' = [ctxs EXCEPT ![Outer] = CtxSet(@, k, v)]
    /\ last' = [NoOp EXCEPT !.op = "outer_set", !.c = Outer]
    /\ UNCHANGED <<assocs, fills, nextId>>

\* outer_ctx.update(d) of a caller
OuterUpdate(d) ==
    /\ ScopeStep
    /\ Len(ctxs[Outer]) < MaxDepth
    /\ ctxs' = [ctxs EXCEPT ![Outer] = CtxPush(@, d)]
    /\ last' = [NoOp EXCEPT !.op = "outer_push", !.c = Outer]
    /\ UNCHANGED <<assocs, fills, nextId>>

\* outer_ctx.pop() of a caller
OuterPop ==
    /\ ScopeStep
    /\ Len(ctxs[Outer]) > 1
    /\ ctxs' = [ctxs EXCEPT ![Outer] = CtxPop(@)]
    /\ last' = [NoOp EXCEPT !.op = "outer_pop", !.c = Outer]
    /\ UNCHANGED <<assocs, fills, nextId>>

\* get_outer_root_context(context)[k] = v of a caller
RootSet(k, v) ==
    /\ ScopeStep
    /\ get_outer_root_context(Heap, Main) # NoCtx
    /\ ctxs' = [ctxs EXCEPT ![get_outer_root_context(Heap, Main)] = CtxSet(@, k, v)]
    /\ last' = [NoOp EXCEPT !.op = "root_set", !.c = get_outer_root_context(Heap, Main)]
    /\ UNCHANGED <<assocs, fills, nextId>>

NextOuter ==
    \/ ScopeEnter(Outer)
    \/ \E k \in {"a", "b", "z"}, v \in NewValues : OuterSet(k, v)
    \/ \E d \in UserLayers : OuterUpdate(d)
    \/ OuterPop
    \/ \E k \in {"a", "z"}, v \in NewValues : RootSet(k, v)

SpecOuter == Init /\ [][NextOuter]_vars

-----------------------------------------------------------------------------
(* Claims about the outer root context (SpecOuter) *)

\* C13: the outer root context is a detached snapshot. Once the component is
\* entered, a caller that sets a variable on the outer context, pushes a
\* layer on it or pops one leaves every variable the outer root context
\* resolves as it was, and a caller that sets a variable on the outer root
\* context changes neither the outer context nor the scope.
C13_DetachedSnapshot ==
    [][/\ (/\ last'.op \in {"outer_set", "outer_push", "outer_pop"}
           /\ CtxHas(ctxs[Main], OUTER_ROOT_CTX_CONTEXT_KEY))
          => /\ ctxs'[Main] = ctxs[Main]
             /\ Vars(RootOf(Main))' = Vars(RootOf(Main))
       /\ (last'.op = "root_set")
          => /\ ctxs'[Outer] = ctxs[Outer]
             /\ ctxs'[Main] = ctxs[Main]]_vars

\* a variable that the outer root context resolves has been given another
\* value on the outer context, and a variable has been set on the outer root
\* context
C13_Witness ==
    /\ CtxHas(ctxs[Main], OUTER_ROOT_CTX_CONTEXT_KEY)
    /\ \E k \in UserKeys :
           /\ CtxHas(RootOf(Main), k)
           /\ CtxHas(ctxs[Outer], k)
           /\ CtxItem(RootOf(Main), k) # CtxItem(ctxs[Outer], k)
           /\ CtxItem(ctxs[Outer], k) \in NewValues
    /\ last.op = "root_set"


-----------------------------------------------------------------------------
(* State machine of two Contexts that templates push layers on and pop     *)
(* layers from, with copy_forloop_context called from one to the other     *)

LoopLayers == {LayerA, ForNodeLayer, InnerForNodeLayer}

\* context.update(d) of a caller
LoopUpdate(c, d) ==
    /\ ScopeStep
    /\ Len(ctxs[c]) < MaxDepth
    /\ ctxs' = [ctxs EXCEPT ![c] = CtxPush(@, d)]
    /\ last' = [NoOp EXCEPT !.op = "push", !.c = c]
    /\ UNCHANGED <<assocs, fills, nextId>>

\* context.pop() of a caller
LoopPop(c) ==
    /\ ScopeStep
    /\ Len(ctxs[c]) > 1
    /\ ctxs' = [ctxs EXCEPT ![c] = CtxPop(@)]
    /\ last' = [NoOp EXCEPT !.op = "pop", !.c = c]
    /\ UNCHANGED <<assocs, fills, nextId>>

CopyForloopContext(from_context, to_context) ==
    /\ ScopeStep
    /\ from_context # to_context
    /\ Len(ctxs[to_context]) < MaxDepth
    /\ SetHeap(copy_forloop_context(Heap, from_context, to_context))
    /\ last' = [NoOp EXCEPT !.op = "copy_forloop_context", !.c = from_context,
                            !.outer = to_context]
    /\ UNCHANGED nextId

NextLoop ==
    \/ \E c \in CtxIds, d \in LoopLayers : LoopUpdate(c, d)
    \/ \E c \in CtxIds : LoopPop(c)
    \/ \E f \in CtxIds, t \in CtxIds : CopyForloopContext(f, t)

InitLoop ==
    /\ Init
    /\ ctxs[Outer] = <<DefaultsWithZ>>

SpecLoop == InitLoop /\ [][NextLoop]_vars

-----------------------------------------------------------------------------
(* Claims about copy_forloop_context (SpecLoop) *)

\* the layers of a Context that hold the iteration marker
MarkerLayers(ds) == {i \in 1..Len(ds) : "forloop" \in DOMAIN ds[i]}

\* the topmost of them
TopMarkerLayer(ds) ==
    ds[CHOOSE i \in MarkerLayers(ds) : \A j \in MarkerLayers(ds) : j <= i]

\* C19: copy_forloop_context(from, to) pushes exactly one layer on `to` when
\* some layer of `from` holds "forloop": a copy of the whole topmost layer
\* of `from` that holds it, so that every key of that layer resolves in `to`
\* to the value it has there. When no layer of `from` holds "forloop", `to`
\* is left as it was. `from` is never modified.
C19_CopiesTopmostLoopLayer ==
    [][\A f \in CtxIds, t \in CtxIds :
           (last'.op = "copy_forloop_context" /\ last'.c = f /\ last'.outer = t)
           => /\ ctxs'[f] = ctxs[f]
              /\ IF MarkerLayers(ctxs[f]) # {}
                 THEN /\ Len(ctxs'[t]) = Len(ctxs[t]) + 1
                      /\ SubSeq(ctxs'[t], 1, Len(ctxs[t])) = ctxs[t]
                      /\ ctxs'[t][Len(ctxs'[t])] = TopMarkerLayer(ctxs[f])
                      /\ \A k \in DOMAIN TopMarkerLayer(ctxs[f]) :
                             CtxItem(ctxs'[t], k) = TopMarkerLayer(ctxs[f])[k]
                 ELSE ctxs'[t] = ctxs[t]]_vars

\* the source holds the layers of two nested loops, with a plain layer above
\* them, and the layer of the inner loop has been copied
C19_Witness ==
    /\ last.op = "copy_forloop_context"
    /\ Cardinality(MarkerLayers(ctxs[last.c])) = 2
    /\ TopMarkerLayer(ctxs[last.c]) = InnerForNodeLayer
    /\ ctxs[last.c][Len(ctxs[last.c])] = LayerA
    /\ ctxs[last.outer][Len(ctxs[last.outer])] = InnerForNodeLayer
    /\ CtxItem(ctxs[last.outer], "item") = 2


-----------------------------------------------------------------------------
(* State machine of the fill registry: a scope is entered and copied, and  *)
(* fills are stored and looked up with component ids and slot names that   *)
(* may hold the separator of the registry key. passFills records, for the  *)
(* registry and the pair of every set_slot_fill call, the content stored.  *)

FillCompIds == {"a", "a__b"}
FillSlotNames == {"c", "b__c"}

\* the FillContent a component brings for a slot
FillFor(component_id, slot_name) == "fill of " \o component_id \o " for " \o slot_name

\* the Contexts that resolve a fill registry
WithRegistry == {c \in CtxIds : CtxHas(ctxs[c], FILLED_SLOTS_CONTENT_CONTEXT_KEY)}

RegistryOf(c) == CtxItem(ctxs[c], FILLED_SLOTS_CONTENT_CONTEXT_KEY)

FillEnter(component_id) ==
    /\ ScopeStep
    /\ nextId <= MaxComps
    /\ SetHeap(prepare_context(Heap, Main, NoCtx, component_id))
    /\ nextId' = nextId + 1
    /\ last' = [NoOp EXCEPT !.op = "prepare_context", !.c = Main, !.comp = component_id,
                            !.hadRoot = CtxHas(ctxs[Main], OUTER_ROOT_CTX_CONTEXT_KEY)]

SetSlotFill(c, component_id, slot_name) ==
    /\ steps < MaxSteps + 2
    /\ steps' = steps + 1
    /\ LET r == set_slot_fill(Heap, c, component_id, slot_name, FillFor(component_id, slot_name))
       IN  SetHeap(r.heap)
    /\ passFills' = (<<RegistryOf(c), component_id, slot_name>> :> FillFor(component_id, slot_name))
                        @@ passFills
    /\ last' = [NoOp EXCEPT !.op = "set_slot_fill", !.c = c, !.comp = component_id,
                            !.slot = slot_name]
    /\ UNCHANGED <<behavior, cur, frames, nextId>>

GetSlotFill(c, component_id, slot_name) ==
    /\ ScopeStep
    /\ LET r == get_slot_fill(Heap, c, component_id, slot_name)
       IN  last' = [NoOp EXCEPT !.op = "get_slot_fill", !.c = c, !.comp = component_id,
                                !.slot = slot_name, !.err = r.err, !.val = r.val]
    /\ UNCHANGED <<ctxs, assocs, fills, nextId>>

NextFills ==
    \/ \E id \in FillCompIds : FillEnter(id)
    \/ ScopeUpdate(LayerB)
    \/ ScopePop
    \/ ScopeCopy
    \/ \E c \in WithRegistry, id \in FillCompIds, n \in FillSlotNames : SetSlotFill(c, id, n)
    \/ \E c \in WithRegistry, id \in FillCompIds, n \in FillSlotNames : GetSlotFill(c, id, n)

SpecFills == InitScope /\ [][NextFills]_vars

-----------------------------------------------------------------------------
(* Claims about the fill registry (SpecFills) *)

\* C20 as stated: fill keys do not collide. set_slot_fill for one pair
\* (component id, slot name) leaves the result of get_slot_fill for every
\* other pair as it was, on every scope, also when an id or a name holds
\* "__".
C20_KeysDoNotCollide ==
    [][\A id \in FillCompIds, n \in FillSlotNames :
           (last'.op = "set_slot_fill" /\ last'.comp = id /\ last'.slot = n)
           => \A c \in WithRegistry, id2 \in FillCompIds, n2 \in FillSlotNames :
                  (<<id2, n2>> # <<id, n>>)
                  => get_slot_fill(Heap, c, id2, n2)' = get_slot_fill(Heap, c, id2, n2)]_vars

\* C11 as stated: on a scope that has been entered or is an isolated copy,
\* and so resolves a fill registry, get_slot_fill returns without error the
\* content stored for the pair, or None when no fill was stored for the
\* pair. The call changes neither the scope nor the registry, and a second
\* call with the same arguments returns the same.
C11_StoredFillOrNone ==
    [][\A c \in WithRegistry, id \in FillCompIds, n \in FillSlotNames :
           (last'.op = "get_slot_fill" /\ last'.c = c /\ last'.comp = id /\ last'.slot = n)
           => /\ ctxs' = ctxs /\ assocs' = assocs /\ fills' = fills
              /\ ~last'.err
              /\ last'.val = IF <<RegistryOf(c), id, n>> \in DOMAIN passFills
                             THEN passFills[<<RegistryOf(c), id, n>>]
                             ELSE None
              /\ get_slot_fill(Heap, c, id, n)' = [err |-> last'.err, val |-> last'.val]]_vars

====
